---- MODULE Spec2Model ----
(***************************************************************************)
(* chatroom-rs: the room registry, the rooms and the per-connection        *)
(* session of src/main.rs (handle_socket), as a state machine.             *)
(*                                                                         *)
(* One session is one run of handle_socket.  Its statements are the        *)
(* actions below; the two tasks it spawns (recv_messages, send_messages)   *)
(* have their own program counters.  The registry mutex is a variable, so  *)
(* the statements inside a critical section are separate steps that other  *)
(* sessions interleave with wherever the lock allows it.                   *)
(*                                                                         *)
(* JoinHandle::abort() cancels a task at the next await it reaches: a task *)
(* parked at an await is dropped by the abort, a task between two awaits   *)
(* runs on to the next one first.                                          *)
(*                                                                         *)
(* Spec and FairSpec run the sessions; ServerSpec runs them together with  *)
(* calls of get_rooms, which only take and release the registry lock.      *)
(***************************************************************************)
EXTENDS Naturals, Sequences, FiniteSets, TLC

(* ------------------------------ bounds -------------------------------- *)

\* Text frames the clients send after their handshakes, all together.
MaxChat == 1

\* Calls of get_rooms (GET /rooms) the server takes.
MaxList == 1

\* Slots of a room's broadcast ring (main.rs:32 asks for 69; the model keeps
\* the ring small so that a lagging receiver is reachable).
Capacity == 2

\* The connections the server accepts; each runs handle_socket once.
Sessions == {"s1", "s2"}

\* What a client may put in a join request.
Usernames == {"", "alice", "bob"}
RoomNames == {"lobby", "den"}

None == "none"

(* --------------------------- wire formats ----------------------------- *)

\* The JSON text of a join request, as a client writes it.
ToJson(u, c) == "{\"username\":\"" \o u \o "\",\"channel\":\"" \o c \o "\"}"

\* Text payloads a client may send: join requests, a JSON object of another
\* shape, and plain text.
OtherShape == "{\"username\":\"alice\"}"
PlainText == "hi"

\* The join requests a session's client may send.  Room names and non-empty
\* usernames are treated alike by the code, so the first client's choice is
\* fixed up to renaming: its room is "lobby" and its name "" or "alice".  The
\* second client takes the same or another name, in the same or another room.
Offers(s) ==
    IF s = "s1" THEN {<<u, "lobby">> : u \in {"", "alice"}}
    ELSE (Usernames \X RoomNames) \ {<<"bob", "den">>}
JoinTexts(s) == {ToJson(k[1], k[2]) : k \in Offers(s)}
HandshakeTexts(s) == JoinTexts(s) \cup {OtherShape, PlainText}
\* The texts a client may send once it was accepted: plain text, and a text
\* that is itself a join request.  The first client chats in plain text, the
\* second one sends a join request again.
JoinAgain == ToJson("bob", "den")
ChatTexts == {PlainText, JoinAgain}
ChatTextsOf(s) == IF s = "s1" THEN {PlainText} ELSE {JoinAgain}

\* serde_json::from_str::<Connect>: <<connect>> on success, <<>> on error.
from_str(text) ==
    LET hits == {k \in Usernames \X RoomNames : ToJson(k[1], k[2]) = text}
    IN  IF hits = {} THEN <<>>
        ELSE LET k == CHOOSE k \in hits : TRUE
             IN  <<[username |-> k[1], channel |-> k[2]]>>

\* What receiver.next().await yields.
TextFrame(t) == [type |-> "Text", text |-> t]
BinaryFrame == [type |-> "Binary", text |-> ""]
StreamErr == [type |-> "Err", text |-> ""]
StreamEnd == [type |-> "None", text |-> ""]

\* The notices and lines the server writes.
FailedNotice == "Failed to connect to room!"
TakenNotice == "Username already taken."
joined(u) == u \o " joined the chat!"
left(u) == u \o " left the chat!"

\* Mutant of chat_line: the text is broadcast without the sender's name.
chat_line_raw(name, text) == text

\* format!("{}: {}", name, text), line 149.
chat_line(name, text) == name \o ": " \o text

(* ------------------------------ state --------------------------------- *)

VARIABLES
    rooms,       \* AppState.rooms: room name -> [users, tx]
    rooms_lock,  \* holder of the registry mutex, or None
    poisoned,    \* the registry mutex is poisoned
    chans,       \* per channel instance: the lines stored by send, in order
    pc,          \* per session: position in handle_socket
    msg,         \* per session: `msg` of the handshake loop, <<>> before
    connect,     \* per session: the decoded Connect, <<>> before
    username,    \* per session: local `username`
    channel,     \* per session: local `channel`
    tx,          \* per session: local `tx` (a channel instance or None)
    rx_start,    \* per session: position of rx at subscribe (0: no rx)
    rx_next,     \* per session: next position rx reads
    rpc,         \* per session: position of the recv_messages task
    spc,         \* per session: position of the send_messages task
    text,        \* per session: frame text held by send_messages
    s_abort,     \* per session: send_messages was aborted between two awaits
    nchat,       \* text frames read by the send_messages tasks so far
    ws_out,      \* per session: messages given to sender.send, in order
    said,        \* per session: lines given to tx.send, in order
    lister,      \* position of the get_rooms call under way, or "idle"
    nlist,       \* get_rooms calls taken so far
    taken,       \* per session: the name was in the room when the join locked
    snap         \* per session: the registry when the join locked it

vars == <<rooms, rooms_lock, poisoned, chans, pc, msg, connect, username,
          channel, tx, rx_start, rx_next, rpc, spc, text, s_abort, nchat,
          ws_out, said, lister, nlist, taken, snap>>

\* Groups for UNCHANGED.
shared == <<rooms, rooms_lock, poisoned, chans>>
locals == <<msg, connect, username, channel, tx>>
rxvars == <<rx_start, rx_next, rpc>>
txvars == <<spc, text, s_abort, nchat>>
ghosts == <<taken, snap>>
listvars == <<lister, nlist>>

\* RoomState::new: an empty membership set and a fresh channel.  A session
\* creates at most one room, so the instance is named by its creator.
RoomState_new(s) == [users |-> {}, tx |-> s]

NoRooms == [r \in {} |-> RoomState_new(None)]

Init ==
    /\ rooms = NoRooms
    /\ rooms_lock = None
    /\ poisoned = FALSE
    /\ chans = [c \in Sessions |-> <<>>]
    /\ pc = [s \in Sessions |-> "hs_recv"]
    /\ msg = [s \in Sessions |-> <<>>]
    /\ connect = [s \in Sessions |-> <<>>]
    /\ username = [s \in Sessions |-> ""]
    /\ channel = [s \in Sessions |-> ""]
    /\ tx = [s \in Sessions |-> None]
    /\ rx_start = [s \in Sessions |-> 0]
    /\ rx_next = [s \in Sessions |-> 0]
    /\ rpc = [s \in Sessions |-> "unspawned"]
    /\ spc = [s \in Sessions |-> "unspawned"]
    /\ text = [s \in Sessions |-> ""]
    /\ s_abort = [s \in Sessions |-> FALSE]
    /\ nchat = 0
    /\ ws_out = [s \in Sessions |-> <<>>]
    /\ said = [s \in Sessions |-> <<>>]
    /\ lister = "idle"
    /\ nlist = 0
    /\ taken = [s \in Sessions |-> FALSE]
    /\ snap = [s \in Sessions |-> <<>>]

(* ------------------------- broadcast channel -------------------------- *)

\* A session owns a live Receiver from tx.subscribe() until the task that
\* took it ends.
HasRx(s) == pc[s] = "announce" \/ rpc[s] = "recv"

Receivers(c) == {s \in Sessions : tx[s] = c /\ HasRx(s)}

\* broadcast::Sender::send: stores the line unless no receiver is alive.
Send(c, line) ==
    IF Receivers(c) = {} THEN chans
    ELSE [chans EXCEPT ![c] = Append(@, line)]

\* Lines a receiver has not read yet.
Unread(s) == Len(chans[tx[s]]) - (rx_next[s] - 1)

\* The ring overwrote a line the receiver has not read: recv is Err(Lagged).
Lagged(s) == Unread(s) > Capacity

\* Mutant of WsSend: the newest message overtakes the ones already handed over.
WsSend_front(s, m) == [ws_out EXCEPT ![s] = <<m>> \o @]

\* sender.send(m): the message is handed to the connection's sink.
WsSend(s, m) == [ws_out EXCEPT ![s] = Append(@, m)]

(* ------------------------------ handshake ----------------------------- *)

\* What the client may make receiver.next() yield during the handshake.
HandshakeInputs(s) ==
    {TextFrame(t) : t \in HandshakeTexts(s)}
        \cup {BinaryFrame, StreamErr, StreamEnd}

\* Lines 89-92: one turn of `while let Some(Ok(msg)) = receiver.next().await`.
\* The loop ends when the stream ends or errs, skips a frame that is not
\* Text, and decodes a Text frame.
hs_recv(s) ==
    /\ pc[s] = "hs_recv"
    /\ \E f \in HandshakeInputs(s) :
        IF f.type \in {"None", "Err"}
        THEN /\ pc' = [pc EXCEPT ![s] = "unwrap"]
             /\ UNCHANGED <<connect, msg>>
        ELSE /\ msg' = [msg EXCEPT ![s] = <<f>>]
             /\ IF f.type # "Text"
                THEN UNCHANGED <<pc, connect>>
                ELSE IF from_str(f.text) = <<>>
                THEN /\ pc' = [pc EXCEPT ![s] = "hs_fail"]
                     /\ UNCHANGED connect
                ELSE /\ pc' = [pc EXCEPT ![s] = "j_lock"]
                     /\ connect' = [connect EXCEPT ![s] = from_str(f.text)]
    /\ UNCHANGED <<shared, username, channel, tx, rxvars, txvars, ws_out,
                   said, ghosts>>
    /\ UNCHANGED listvars

\* Mutant of hs_fail: the loop is left without the notice.
hs_fail_silent(s) ==
    /\ pc[s] = "hs_fail"
    /\ pc' = [pc EXCEPT ![s] = "unwrap"]
    /\ UNCHANGED <<shared, locals, rxvars, txvars, ws_out, said, ghosts>>
    /\ UNCHANGED listvars

\* Lines 93-99: the decode failed; send the notice (`let _ =` drops the
\* result of the write) and break out of the loop.
hs_fail(s) ==
    /\ pc[s] = "hs_fail"
    /\ ws_out' = WsSend(s, FailedNotice)
    /\ pc' = [pc EXCEPT ![s] = "unwrap"]
    /\ UNCHANGED <<shared, locals, rxvars, txvars, said, ghosts>>
    /\ UNCHANGED listvars

\* The name asked for is in the room asked for.
IsMember(reg, u, c) == c \in DOMAIN reg /\ u \in reg[c].users

\* Lines 103-104: state.rooms.lock().unwrap(); channel = connect.channel.
\* lock() blocks while another session holds the mutex and is Err once the
\* mutex is poisoned, which unwrap turns into a panic.
j_lock(s) ==
    /\ pc[s] = "j_lock"
    /\ rooms_lock = None
    /\ IF poisoned
       THEN /\ pc' = [pc EXCEPT ![s] = "panicked"]
            /\ UNCHANGED <<rooms_lock, channel, taken, snap>>
       ELSE /\ rooms_lock' = s
            /\ channel' = [channel EXCEPT ![s] = connect[s][1].channel]
            /\ taken' = [taken EXCEPT ![s] =
                  IsMember(rooms, connect[s][1].username, connect[s][1].channel)]
            /\ snap' = [snap EXCEPT ![s] = <<rooms>>]
            /\ pc' = [pc EXCEPT ![s] = "j_entry"]
    /\ UNCHANGED <<rooms, poisoned, chans, msg, connect, username, tx,
                   rxvars, txvars, ws_out, said>>
    /\ UNCHANGED listvars

\* rooms.entry(name).or_insert_with(RoomState::new)
or_insert_with(s, name) ==
    IF name \in DOMAIN rooms THEN rooms
    ELSE [r \in DOMAIN rooms \cup {name} |->
            IF r = name THEN RoomState_new(s) ELSE rooms[r]]

\* Mutant of j_entry: the session takes a channel of its own instead of a
\* clone of the room's sender.
j_entry_own_channel(s) ==
    /\ pc[s] = "j_entry"
    /\ rooms' = or_insert_with(s, channel[s])
    /\ tx' = [tx EXCEPT ![s] = s]
    /\ pc' = [pc EXCEPT ![s] = "j_contains"]
    /\ UNCHANGED <<rooms_lock, poisoned, chans, msg, connect, username,
                   channel, rxvars, txvars, ws_out, said, ghosts>>
    /\ UNCHANGED listvars

\* Lines 106-107: look the room up or create it; tx = Some(room.tx.clone()).
j_entry(s) ==
    /\ pc[s] = "j_entry"
    /\ rooms' = or_insert_with(s, channel[s])
    /\ tx' = [tx EXCEPT ![s] = rooms'[channel[s]].tx]
    /\ pc' = [pc EXCEPT ![s] = "j_contains"]
    /\ UNCHANGED <<rooms_lock, poisoned, chans, msg, connect, username,
                   channel, rxvars, txvars, ws_out, said, ghosts>>
    /\ UNCHANGED listvars

\* Mutants of contains: the test is forgotten; the test looks in every room.
contains_never(s) == FALSE
contains_any_room(s) ==
    \E r \in DOMAIN rooms : connect[s][1].username \in rooms[r].users

\* room.users.lock().unwrap().contains(&connect.username), line 109.
contains(s) == connect[s][1].username \in rooms[channel[s]].users

\* Line 109: the membership test.
j_contains(s) ==
    /\ pc[s] = "j_contains"
    /\ channel[s] \in DOMAIN rooms
    /\ pc' = [pc EXCEPT ![s] = IF contains(s) THEN "j_unlock" ELSE "j_insert"]
    /\ UNCHANGED <<shared, locals, rxvars, txvars, ws_out, said, ghosts>>
    /\ UNCHANGED listvars

\* Lines 110-114: insert the name; username = connect.username.
j_insert(s) ==
    /\ pc[s] = "j_insert"
    /\ channel[s] \in DOMAIN rooms
    /\ rooms' = [rooms EXCEPT ![channel[s]].users = @ \cup {connect[s][1].username}]
    /\ username' = [username EXCEPT ![s] = connect[s][1].username]
    /\ pc' = [pc EXCEPT ![s] = "j_unlock"]
    /\ UNCHANGED <<rooms_lock, poisoned, chans, msg, connect, channel, tx,
                   rxvars, txvars, ws_out, said, ghosts>>
    /\ UNCHANGED listvars

\* Line 118: tx.is_some() && !username.is_empty()
accepted(s) == tx[s] # None /\ username[s] # ""

\* The registry guard goes out of scope.
Unlock(s) == IF rooms_lock = s THEN None ELSE rooms_lock

\* Mutant of j_unlock: the registry guard lives to the end of the loop body,
\* across the await of the rejection notice.
j_unlock_late(s) ==
    /\ pc[s] = "j_unlock"
    /\ snap' = [snap EXCEPT ![s] = <<>>]
    /\ IF accepted(s)
       THEN /\ pc' = [pc EXCEPT ![s] = "unwrap"]
            /\ rooms_lock' = Unlock(s)
            /\ UNCHANGED ws_out
       ELSE /\ pc' = [pc EXCEPT ![s] = "rejected"]
            /\ ws_out' = WsSend(s, TakenNotice)
            /\ UNCHANGED rooms_lock
    /\ UNCHANGED <<rooms, poisoned, chans, locals, rxvars, txvars, said, taken>>
    /\ UNCHANGED listvars

\* Lines 116-126: the block ends and the registry guard is dropped; then the
\* session leaves the loop as a member, or sends the notice and returns.
j_unlock(s) ==
    /\ pc[s] = "j_unlock"
    /\ rooms_lock' = Unlock(s)
    /\ snap' = [snap EXCEPT ![s] = <<>>]
    /\ IF accepted(s)
       THEN /\ pc' = [pc EXCEPT ![s] = "unwrap"]
            /\ UNCHANGED ws_out
       ELSE /\ pc' = [pc EXCEPT ![s] = "rejected"]
            /\ ws_out' = WsSend(s, TakenNotice)
    /\ UNCHANGED <<rooms, poisoned, chans, locals, rxvars, txvars, said, taken>>
    /\ UNCHANGED listvars

(* ------------------------------- active ------------------------------- *)

\* Mutant of unwrap: the new receiver starts at the oldest line of the channel.
unwrap_replay(s) ==
    /\ pc[s] = "unwrap"
    /\ IF tx[s] = None
       THEN /\ pc' = [pc EXCEPT ![s] = "panicked"]
            /\ UNCHANGED <<rx_start, rx_next>>
       ELSE /\ pc' = [pc EXCEPT ![s] = "announce"]
            /\ rx_start' = [rx_start EXCEPT ![s] = 1]
            /\ rx_next' = [rx_next EXCEPT ![s] = 1]
    /\ UNCHANGED <<shared, locals, rpc, txvars, ws_out, said, ghosts>>
    /\ UNCHANGED listvars

\* Lines 130-131: tx.unwrap() panics on None; rx = tx.subscribe() starts at
\* the channel's tail.
unwrap(s) ==
    /\ pc[s] = "unwrap"
    /\ IF tx[s] = None
       THEN /\ pc' = [pc EXCEPT ![s] = "panicked"]
            /\ UNCHANGED <<rx_start, rx_next>>
       ELSE /\ pc' = [pc EXCEPT ![s] = "announce"]
            /\ rx_start' = [rx_start EXCEPT ![s] = Len(chans[tx[s]]) + 1]
            /\ rx_next' = [rx_next EXCEPT ![s] = Len(chans[tx[s]]) + 1]
    /\ UNCHANGED <<shared, locals, rpc, txvars, ws_out, said, ghosts>>
    /\ UNCHANGED listvars

\* Mutant of announce: the join line is broadcast before tx.subscribe(), so
\* the session's own receiver starts behind it.
announce_then_subscribe(s) ==
    /\ pc[s] = "announce"
    /\ chans' = IF Receivers(tx[s]) \ {s} = {} THEN chans
                ELSE [chans EXCEPT ![tx[s]] = Append(@, joined(username[s]))]
    /\ rx_start' = [rx_start EXCEPT ![s] = Len(chans'[tx[s]]) + 1]
    /\ rx_next' = [rx_next EXCEPT ![s] = Len(chans'[tx[s]]) + 1]
    /\ said' = [said EXCEPT ![s] = Append(@, joined(username[s]))]
    /\ rpc' = [rpc EXCEPT ![s] = "recv"]
    /\ spc' = [spc EXCEPT ![s] = "next"]
    /\ pc' = [pc EXCEPT ![s] = "select"]
    /\ UNCHANGED <<rooms, rooms_lock, poisoned, locals, text, s_abort, nchat,
                   ws_out, ghosts>>
    /\ UNCHANGED listvars

\* Lines 133-152: broadcast the join line, then spawn both tasks.
announce(s) ==
    /\ pc[s] = "announce"
    /\ chans' = Send(tx[s], joined(username[s]))
    /\ said' = [said EXCEPT ![s] = Append(@, joined(username[s]))]
    /\ rpc' = [rpc EXCEPT ![s] = "recv"]
    /\ spc' = [spc EXCEPT ![s] = "next"]
    /\ pc' = [pc EXCEPT ![s] = "select"]
    /\ UNCHANGED <<rooms, rooms_lock, poisoned, locals, rx_start, rx_next,
                   text, s_abort, nchat, ws_out, ghosts>>
    /\ UNCHANGED listvars

\* Lines 137-141: one turn of `while let Ok(msg) = rx.recv().await`.
\* Err(Lagged) ends the loop; Ok(msg) moves the cursor and the line is given
\* to sender.send, whose failure ends the loop too.  recv waits while nothing
\* is unread (the session holds a Sender itself, so Err(Closed) does not
\* happen while the task runs).
recv_messages(s) ==
    /\ rpc[s] = "recv"
    /\ Unread(s) > 0
    /\ IF Lagged(s)
       THEN /\ rpc' = [rpc EXCEPT ![s] = "lagged"]
            /\ UNCHANGED <<rx_next, ws_out>>
       ELSE /\ rx_next' = [rx_next EXCEPT ![s] = @ + 1]
            /\ ws_out' = WsSend(s, chans[tx[s]][rx_next[s]])
            /\ \E ok \in BOOLEAN :
                rpc' = [rpc EXCEPT ![s] = IF ok THEN "recv" ELSE "werr"]
    /\ UNCHANGED <<shared, pc, locals, rx_start, txvars, said, ghosts>>
    /\ UNCHANGED listvars

\* What the client may make receiver.next() yield after the handshake.
ChatInputs(s) ==
    {TextFrame(t) : t \in IF nchat < MaxChat THEN ChatTextsOf(s) ELSE {}}
        \cup {BinaryFrame, StreamErr, StreamEnd}

\* Mutant of send_next: a text that decodes as a join request renames the
\* session and moves it to the room it names.
send_next_rejoin(s) ==
    /\ spc[s] = "next"
    /\ \E f \in ChatInputs(s) :
        IF f.type = "Text"
        THEN /\ text' = [text EXCEPT ![s] = f.text]
             /\ nchat' = nchat + 1
             /\ spc' = [spc EXCEPT ![s] = "bcast"]
             /\ IF from_str(f.text) = <<>>
                THEN UNCHANGED <<username, channel>>
                ELSE /\ username' = [username EXCEPT ![s] = from_str(f.text)[1].username]
                     /\ channel' = [channel EXCEPT ![s] = from_str(f.text)[1].channel]
        ELSE /\ spc' = [spc EXCEPT ![s] = "done"]
             /\ UNCHANGED <<text, nchat, username, channel>>
    /\ UNCHANGED <<shared, pc, msg, connect, tx, rxvars, s_abort, ws_out, said,
                   ghosts>>
    /\ UNCHANGED listvars

\* Line 148: `while let Some(Ok(Message::Text(text))) = receiver.next().await`.
send_next(s) ==
    /\ spc[s] = "next"
    /\ \E f \in ChatInputs(s) :
        IF f.type = "Text"
        THEN /\ text' = [text EXCEPT ![s] = f.text]
             /\ nchat' = nchat + 1
             /\ spc' = [spc EXCEPT ![s] = "bcast"]
        ELSE /\ spc' = [spc EXCEPT ![s] = "done"]
             /\ UNCHANGED <<text, nchat>>
    /\ UNCHANGED <<shared, pc, locals, rxvars, s_abort, ws_out, said, ghosts>>
    /\ UNCHANGED listvars

\* Line 149: tx.send(format!("{}: {}", name, text)); then back to the await
\* of line 148, where an aborted task is dropped.
send_bcast(s) ==
    /\ spc[s] = "bcast"
    /\ chans' = Send(tx[s], chat_line(username[s], text[s]))
    /\ said' = [said EXCEPT ![s] = Append(@, chat_line(username[s], text[s]))]
    /\ spc' = [spc EXCEPT ![s] = IF s_abort[s] THEN "cancelled" ELSE "next"]
    /\ UNCHANGED <<rooms, rooms_lock, poisoned, pc, locals, rxvars, text,
                   s_abort, nchat, ws_out, ghosts>>
    /\ UNCHANGED listvars

RecvTaskEnded(s) == rpc[s] \in {"lagged", "werr"}
SendTaskEnded(s) == spc[s] = "done"

\* Mutant of select: only the end of send_messages is waited for.
select_send_only(s) ==
    /\ pc[s] = "select"
    /\ SendTaskEnded(s)
    /\ rpc' = [rpc EXCEPT ![s] = IF @ = "recv" THEN "cancelled" ELSE @]
    /\ pc' = [pc EXCEPT ![s] = "leave"]
    /\ UNCHANGED <<shared, locals, rx_start, rx_next, txvars, ws_out, said,
                   ghosts>>
    /\ UNCHANGED listvars

\* Lines 154-157: the first task to finish wins and the other one is
\* aborted.  recv_messages is parked at an await between its turns;
\* send_messages is parked at line 148 or about to send at line 149.
select(s) ==
    /\ pc[s] = "select"
    /\ \/ /\ SendTaskEnded(s)
          /\ rpc' = [rpc EXCEPT ![s] = IF @ = "recv" THEN "cancelled" ELSE @]
          /\ UNCHANGED <<spc, s_abort>>
       \/ /\ RecvTaskEnded(s)
          /\ spc' = [spc EXCEPT ![s] = IF @ = "next" THEN "cancelled" ELSE @]
          /\ s_abort' = [s_abort EXCEPT ![s] = (spc[s] = "bcast")]
          /\ UNCHANGED rpc
    /\ pc' = [pc EXCEPT ![s] = "leave"]
    /\ UNCHANGED <<shared, locals, rx_start, rx_next, text, nchat, ws_out,
                   said, ghosts>>
    /\ UNCHANGED listvars

(* ------------------------------- cleanup ------------------------------ *)

\* Mutant of leave: the cleanup starts before the leave line is broadcast.
leave_after_cleanup(s) ==
    /\ pc[s] = "leave"
    /\ pc' = [pc EXCEPT ![s] = "c_lock"]
    /\ UNCHANGED <<shared, locals, rxvars, txvars, ws_out, said, ghosts>>
    /\ UNCHANGED listvars

\* Lines 159-160: broadcast the leave line.
leave(s) ==
    /\ pc[s] = "leave"
    /\ chans' = Send(tx[s], left(username[s]))
    /\ said' = [said EXCEPT ![s] = Append(@, left(username[s]))]
    /\ pc' = [pc EXCEPT ![s] = "c_lock"]
    /\ UNCHANGED <<rooms, rooms_lock, poisoned, locals, rxvars, txvars,
                   ws_out, ghosts>>
    /\ UNCHANGED listvars

\* Line 161: state.rooms.lock().unwrap().
c_lock(s) ==
    /\ pc[s] = "c_lock"
    /\ rooms_lock = None
    /\ IF poisoned
       THEN /\ pc' = [pc EXCEPT ![s] = "panicked"]
            /\ UNCHANGED rooms_lock
       ELSE /\ rooms_lock' = s
            /\ pc' = [pc EXCEPT ![s] = "c_remove"]
    /\ UNCHANGED <<rooms, poisoned, chans, locals, rxvars, txvars, ws_out,
                   said, ghosts>>
    /\ UNCHANGED listvars

\* A panic while the registry guard is alive: the guard's drop releases the
\* mutex and poisons it.
Panic(s) ==
    /\ pc' = [pc EXCEPT ![s] = "panicked"]
    /\ rooms_lock' = Unlock(s)
    /\ poisoned' = TRUE

\* Mutant of c_remove: the guard is dropped after the remove, so that the
\* emptiness test runs outside the critical section.
c_remove_unlock(s) ==
    /\ pc[s] = "c_remove"
    /\ channel[s] \in DOMAIN rooms
    /\ rooms' = [rooms EXCEPT ![channel[s]].users = @ \ {username[s]}]
    /\ rooms_lock' = Unlock(s)
    /\ pc' = [pc EXCEPT ![s] = "c_len"]
    /\ UNCHANGED <<poisoned, chans, locals, rxvars, txvars, ws_out, said, ghosts>>
    /\ UNCHANGED listvars

\* Lines 162-168: rooms.get_mut(&channel).unwrap().users.remove(&username).
c_remove(s) ==
    /\ pc[s] = "c_remove"
    /\ IF channel[s] \in DOMAIN rooms
       THEN /\ rooms' = [rooms EXCEPT ![channel[s]].users = @ \ {username[s]}]
            /\ pc' = [pc EXCEPT ![s] = "c_len"]
            /\ UNCHANGED <<rooms_lock, poisoned>>
       ELSE /\ Panic(s)
            /\ UNCHANGED rooms
    /\ UNCHANGED <<chans, locals, rxvars, txvars, ws_out, said, ghosts>>
    /\ UNCHANGED listvars

\* Mutant of c_len: the room is removed whether or not a member remains.
c_len_always(s) ==
    /\ pc[s] = "c_len"
    /\ pc' = [pc EXCEPT ![s] = "c_rm"]
    /\ UNCHANGED <<shared, locals, rxvars, txvars, ws_out, said, ghosts>>
    /\ UNCHANGED listvars

\* Line 170: rooms.get_mut(&channel).unwrap().users.len() == 0; when the set
\* is not empty the function ends and the guard is dropped.
c_len(s) ==
    /\ pc[s] = "c_len"
    /\ IF channel[s] \notin DOMAIN rooms
       THEN Panic(s)
       ELSE IF rooms[channel[s]].users = {}
       THEN /\ pc' = [pc EXCEPT ![s] = "c_rm"]
            /\ UNCHANGED <<rooms_lock, poisoned>>
       ELSE /\ pc' = [pc EXCEPT ![s] = "returned"]
            /\ rooms_lock' = Unlock(s)
            /\ UNCHANGED poisoned
    /\ UNCHANGED <<rooms, chans, locals, rxvars, txvars, ws_out, said, ghosts>>
    /\ UNCHANGED listvars

\* Mutant of c_rm: the empty room is left in the registry.
c_rm_keep(s) ==
    /\ pc[s] = "c_rm"
    /\ rooms_lock' = Unlock(s)
    /\ pc' = [pc EXCEPT ![s] = "returned"]
    /\ UNCHANGED <<rooms, poisoned, chans, locals, rxvars, txvars, ws_out,
                   said, ghosts>>
    /\ UNCHANGED listvars

\* Lines 171-173: rooms.remove(&channel); the function ends and the guard is
\* dropped.
c_rm(s) ==
    /\ pc[s] = "c_rm"
    /\ rooms' = [r \in DOMAIN rooms \ {channel[s]} |-> rooms[r]]
    /\ rooms_lock' = Unlock(s)
    /\ pc' = [pc EXCEPT ![s] = "returned"]
    /\ UNCHANGED <<poisoned, chans, locals, rxvars, txvars, ws_out, said, ghosts>>
    /\ UNCHANGED listvars

(* -------------------------------- locks ------------------------------ *)

\* The statement the session is at locks the membership set of its room
\* (room.users.lock() of lines 109, 111, 166 and 170) and drops that guard
\* before it ends: the guard is a temporary of the statement.
TakesUsersLock(s) == pc[s] \in {"j_contains", "j_insert", "c_remove", "c_len"}

\* The session stands between `let mut rooms = state.rooms.lock().unwrap()`
\* and the end of the scope of that guard (lines 103-116 and 161-173).
InRegistryScope(s) ==
    pc[s] \in {"j_entry", "j_contains", "j_insert", "j_unlock",
               "c_remove", "c_len", "c_rm"}

\* handle_socket is suspended at an await (lines 89, 97, 123, 154) or over.
AtAwait(s) ==
    pc[s] \in {"hs_recv", "hs_fail", "select", "rejected", "returned", "panicked"}

\* The session blocks in state.rooms.lock() (lines 103, 161).
WaitsForLock(s) == pc[s] \in {"j_lock", "c_lock"} /\ rooms_lock # None

(* ------------------------------ get_rooms ----------------------------- *)

\* The request handler of GET /rooms holds the registry guard.
Lister == "get_rooms"

\* Line 176: state.rooms.lock().unwrap().
get_rooms_lock ==
    /\ lister = "idle"
    /\ nlist < MaxList
    /\ rooms_lock = None
    /\ IF poisoned
       THEN /\ lister' = "panicked"
            /\ UNCHANGED rooms_lock
       ELSE /\ lister' = "locked"
            /\ rooms_lock' = Lister
    /\ nlist' = nlist + 1
    /\ UNCHANGED <<rooms, poisoned, chans, pc, locals, rxvars, txvars, ws_out,
                   said, ghosts>>

\* Lines 177-190: the keys are read and formatted, the function ends and the
\* guard is dropped.  Nothing is awaited and nothing but the keys is read.
get_rooms_return ==
    /\ lister = "locked"
    /\ lister' = "idle"
    /\ rooms_lock' = None
    /\ UNCHANGED <<rooms, poisoned, chans, pc, locals, rxvars, txvars, ws_out,
                   said, nlist, ghosts>>

(* ---------------------------- specification --------------------------- *)

\* The statements of handle_socket itself.
Main(s) ==
    \/ hs_fail(s)
    \/ j_lock(s) \/ j_entry(s) \/ j_contains(s) \/ j_insert(s) \/ j_unlock(s)
    \/ unwrap(s) \/ announce(s) \/ select(s) \/ leave(s)
    \/ c_lock(s) \/ c_remove(s) \/ c_len(s) \/ c_rm(s)

\* A step of a session: of handle_socket or of one of its two tasks.
Session(s) ==
    \/ hs_recv(s)
    \/ Main(s)
    \/ recv_messages(s)
    \/ send_next(s) \/ send_bcast(s)

\* The sessions alone.  A get_rooms call changes nothing a session reads but
\* the holder of the registry lock, which it gives back without waiting for
\* anything: to the sessions it is a delay.
Next == \E s \in Sessions : Session(s)

Spec == Init /\ [][Next]_vars

\* The runtime keeps running a task that can take a step; what a client sends
\* and when (hs_recv, send_next) is not the server's to decide.
Fairness ==
    \A s \in Sessions :
        /\ WF_vars(Main(s))
        /\ WF_vars(recv_messages(s))
        /\ WF_vars(send_bcast(s))

FairSpec == Spec /\ Fairness

\* The sessions and the get_rooms calls.
ServerNext ==
    \/ \E s \in Sessions : Session(s)
    \/ get_rooms_lock
    \/ get_rooms_return

ServerSpec == Init /\ [][ServerNext]_vars

(* ------------------------------- claims ------------------------------- *)

\* The session was accepted into its room and its leave has not removed its
\* name yet (from the insert of line 113 to the remove of line 168).
Holding(s) ==
    /\ username[s] # ""
    /\ pc[s] \in {"j_unlock", "unwrap", "announce", "select", "leave",
                  "c_lock", "c_remove"}

\* The session is inside the join's critical section (lines 103-116).
Joining(s) == pc[s] \in {"j_entry", "j_contains", "j_insert", "j_unlock"}

\* The session is inside the cleanup's critical section (lines 161-173).
Cleaning(s) == pc[s] \in {"c_remove", "c_len", "c_rm"}

Ended(s) == pc[s] \in {"rejected", "returned", "panicked"}

\* The session holds the name and room that session j asks for.
Holds(h, j) ==
    /\ Holding(h)
    /\ connect[j] # <<>>
    /\ username[h] = connect[j][1].username
    /\ channel[h] = connect[j][1].channel

\* C1. Uniqueness: no two sessions hold the same username in the same room
\* at once; a join that is processed while another session holds its
\* (username, room) never inserts the name or becomes a holder, and ends
\* rejected with exactly the "Username already taken." notice.
C1_Uniqueness ==
    /\ \A a, b \in Sessions :
        (Holding(a) /\ Holding(b) /\ username[a] = username[b]
            /\ channel[a] = channel[b]) => a = b
    /\ \A j \in Sessions :
        /\ (Joining(j) /\ \E h \in Sessions \ {j} : Holds(h, j))
            => (taken[j] /\ pc[j] # "j_insert" /\ username[j] = "")
        /\ taken[j] => /\ pc[j] \in {"j_entry", "j_contains", "j_unlock", "rejected"}
                       /\ username[j] = ""
                       /\ ws_out[j] = IF pc[j] = "rejected" THEN <<TakenNotice>>
                                      ELSE <<>>

\* A second join for a held (username, room) has been rejected while the
\* holder is still a member.
C1_Witness ==
    \E j, h \in Sessions :
        /\ j # h /\ pc[j] = "rejected" /\ taken[j] /\ Holds(h, j)
        /\ ws_out[j] = <<TakenNotice>>

\* The join request of the session has been decided.
Decided(s) ==
    /\ connect[s] # <<>>
    /\ pc[s] \notin {"hs_recv", "j_lock", "j_entry", "j_contains", "j_insert",
                     "j_unlock", "panicked"}

\* C2. try_join decision, as claimed: a decoded join request is rejected
\* exactly when its username was in the room's membership set when the join
\* was processed, the empty username included.
C2_DecisionAsClaimed ==
    \A s \in Sessions : Decided(s) => (pc[s] = "rejected" <=> taken[s])

\* C3. A rejected join leaves the registry as it found it, as claimed: when
\* the join's critical section ends in a rejection, the set of rooms and every
\* membership set are what they were when the join took the lock.
C3_RejectedJoinNoEffectAsClaimed ==
    \A s \in Sessions :
        (pc[s] = "j_unlock" /\ ~accepted(s)) => snap[s] = <<rooms>>

C5_TeardownRace ==
    /\ \A a \in Sessions :
        (Joining(a) \/ Cleaning(a)) =>
            /\ rooms_lock = a
            /\ \A b \in Sessions \ {a} : ~(Joining(b) \/ Cleaning(b))
    /\ \A s \in Sessions :
        pc[s] = "c_rm" =>
            channel[s] \in DOMAIN rooms /\ rooms[channel[s]].users = {}
    /\ \A s \in Sessions :
        Holding(s) =>
            /\ IsMember(rooms, username[s], channel[s])
            /\ rooms[channel[s]].tx = tx[s]

\* The last member of a room is between its removal from the membership set
\* and the removal of the room while another session waits to join that room.
C5_Witness ==
    \E s, j \in Sessions :
        /\ pc[s] = "c_rm" /\ pc[j] = "j_lock"
        /\ connect[j][1].channel = channel[s]

\* C6. Isolation: a join is rejected only if its username was in the room it
\* asks for (or is empty, the rejection of C2); membership of the same name in
\* another room never rejects it.
C6_Isolation ==
    \A s \in Sessions :
        pc[s] = "rejected" => (taken[s] \/ connect[s][1].username = "")

\* Two sessions hold the same username in two different rooms.
C6_Witness ==
    \E a, b \in Sessions :
        /\ Holding(a) /\ Holding(b)
        /\ username[a] = username[b] /\ channel[a] # channel[b]
        /\ pc[a] = "select" /\ pc[b] = "select"

\* The last frame the handshake loop took is a text that does not decode.
BadText(s) ==
    /\ msg[s] # <<>>
    /\ msg[s][1].type = "Text"
    /\ from_str(msg[s][1].text) = <<>>

\* The last frame the handshake loop took is not a text frame.
NonText(s) == msg[s] # <<>> /\ msg[s][1].type # "Text"

\* The session never touched the registry: no room is its creation and it
\* holds no channel, name or room.
Untouched(s) ==
    /\ connect[s] = <<>> /\ tx[s] = None /\ username[s] = "" /\ channel[s] = ""
    /\ \A r \in DOMAIN rooms : rooms[r].tx # s
    /\ rx_start[s] = 0 /\ said[s] = <<>>

\* C7. Handshake failure, as claimed: a session whose handshake ended on a
\* message that is no join request, a non-text frame included, has sent
\* exactly the one "Failed to connect to room!" notice when it has ended.
C7_HandshakeFailureAsClaimed ==
    \A s \in Sessions :
        ((BadText(s) \/ NonText(s)) /\ Ended(s)) => ws_out[s] = <<FailedNotice>>

\* C7, amended. A text frame that does not decode ends the handshake: the
\* session sends exactly one "Failed to connect to room!" notice and goes on
\* only to the end of its task, never touching the registry.  A non-text
\* frame is skipped: no notice is sent and the session waits for the next
\* frame (or ends with the stream), never touching the registry either.
C7_HandshakeFailure ==
    \A s \in Sessions :
        /\ BadText(s) =>
            /\ pc[s] \in {"hs_fail", "unwrap", "panicked"}
            /\ ws_out[s] = IF pc[s] = "hs_fail" THEN <<>> ELSE <<FailedNotice>>
            /\ Untouched(s)
        /\ NonText(s) =>
            /\ pc[s] \in {"hs_recv", "unwrap", "panicked"}
            /\ ws_out[s] = <<>>
            /\ Untouched(s)

\* A session ended after a text frame that does not decode, with its notice.
C7_Witness ==
    \E s \in Sessions :
        BadText(s) /\ pc[s] = "panicked" /\ ws_out[s] = <<FailedNotice>>

\* The elements of a sequence.
Range(q) == {q[i] : i \in DOMAIN q}

\* One of the session's two loops has ended and the session has not returned.
LoopEnded(s) ==
    /\ pc[s] = "select"
    /\ (SendTaskEnded(s) \/ RecvTaskEnded(s))

\* The step in which the session returns from its cleanup: by then it has
\* given its leave line to the room's channel, its name is out of the
\* membership set, and its room is gone unless a member remains.
ReturnsClean(s) ==
    (pc[s] # "returned" /\ pc'[s] = "returned") =>
        /\ left(username[s]) \in Range(said'[s])
        /\ ~IsMember(rooms', username[s], channel[s])
        /\ channel[s] \in DOMAIN rooms' => rooms'[channel[s]].users # {}
        /\ rooms_lock' = None

\* C8. Unconditional cleanup: an accepted session one of whose two loops has
\* ended (stream end, read error, non-text frame, write failure, lagged
\* subscription) eventually returns from its cleanup, under weak fairness of
\* its steps; and the cleanup it returns from has broadcast its "left the
\* chat!" line, removed its name from the room and removed the room if that
\* left it empty.
C8_UnconditionalCleanup ==
    /\ [][\A s \in Sessions : ReturnsClean(s)]_vars
    /\ \A s \in Sessions : LoopEnded(s) ~> (pc[s] = "returned")

\* A session whose subscription lagged or whose write failed has returned
\* from its cleanup, and its room is gone with it.
C8_Witness ==
    \E s \in Sessions :
        /\ pc[s] = "returned" /\ RecvTaskEnded(s)
        /\ left(username[s]) \in Range(said[s])
        /\ channel[s] \notin DOMAIN rooms

\* The lines a session broadcasts for chat text t.
ChatLines(s) == {username[s] \o ": " \o t : t \in ChatTexts}

\* The chat lines broadcast so far, by session and position.
ChatSaid ==
    {p \in UNION {{<<s, k>> : k \in DOMAIN said[s]} : s \in Sessions} :
        said[p[1]][p[2]] \in ChatLines(p[1])}

\* The receiver of the session is alive and has not yet read a line of the
\* given lines.
UnreadOf(s, lines) ==
    /\ rpc[s] = "recv"
    /\ \E k \in rx_next[s] .. Len(chans[tx[s]]) : chans[tx[s]][k] \in lines

AllChatLines == {u \o ": " \o t : u \in Usernames, t \in ChatTexts}
AllJoinLines == {u \o " joined the chat!" : u \in Usernames}

\* What is true of the lines at every moment: a session broadcasts only its
\* join line, its leave line and "{username}: t" for the texts it read, one
\* line per text; a channel stores only lines that a session of its room
\* broadcast; a channel belongs to one room and the members of a room share
\* one channel; and what a session forwarded to its client is what its
\* receiver has read from its own room's channel, in order.
FanOutSafe ==
    /\ \A s \in Sessions :
        Range(said[s]) \subseteq
            {username[s] \o " joined the chat!", username[s] \o " left the chat!"}
                \cup ChatLines(s)
    /\ Cardinality(ChatSaid) + Cardinality({s \in Sessions : spc[s] = "bcast"})
            = nchat
    /\ \A c \in Sessions : \A l \in Range(chans[c]) :
            \E s \in Sessions : tx[s] = c /\ l \in Range(said[s])
    /\ \A a, b \in Sessions :
        /\ (tx[a] # None /\ tx[a] = tx[b]) => channel[a] = channel[b]
        /\ (Holding(a) /\ Holding(b) /\ channel[a] = channel[b]) => tx[a] = tx[b]
    /\ \A s \in Sessions :
        rx_start[s] > 0 =>
            ws_out[s] = SubSeq(chans[tx[s]], rx_start[s], rx_next[s] - 1)

\* C9. Fan-out: a chat text t read from S1's client is broadcast as the line
\* "{S1.username}: t" on the channel of S1's room only, and every session with
\* a live receiver on that channel (S1 included) eventually has the line
\* forwarded to its client unless its receiver lags or its forwarding task
\* ends first; a session of another room never gets the line.
C9_FanOut ==
    /\ []FanOutSafe
    /\ \A s \in Sessions :
        UnreadOf(s, AllChatLines) ~> (rpc[s] # "recv" \/ ~UnreadOf(s, AllChatLines))

\* The chat line of one session has been forwarded to its own client and to
\* the client of another member of the room.
C9_Witness ==
    \E a, b \in Sessions :
        /\ a # b /\ tx[a] = tx[b] /\ username[a] # username[b]
        /\ (username[a] \o ": " \o PlainText) \in Range(said[a])
        /\ (username[a] \o ": " \o PlainText) \in Range(ws_out[a])
        /\ (username[a] \o ": " \o PlainText) \in Range(ws_out[b])

\* C10. Self-observed join announcement, as claimed: a session that was
\* accepted and has ended without a lagged subscription and without a write
\* failure has forwarded its own "joined the chat!" line to its client.
C10_SelfJoinAsClaimed ==
    \A s \in Sessions :
        (pc[s] = "returned" /\ ~RecvTaskEnded(s)) =>
            (username[s] \o " joined the chat!") \in Range(ws_out[s])

\* The session subscribed before it broadcast its join line: the line is in
\* its channel at or after the position its receiver started from.
SubscribedFirst(s) ==
    rpc[s] # "unspawned" =>
        \E k \in rx_start[s] .. Len(chans[tx[s]]) :
            chans[tx[s]][k] = username[s] \o " joined the chat!"

\* C10, amended. Every accepted session subscribes to its room's channel before
\* it broadcasts its "joined the chat!" line, so the line is stored for its
\* own receiver; the line is eventually forwarded to the joining client and to
\* every session already subscribed unless the receiving session's forwarding
\* task ends first: by a lagged subscription, by a write failure, or because
\* the session's inbound loop ended and the task was aborted.
C10_SelfJoin ==
    /\ [](\A s \in Sessions : SubscribedFirst(s))
    /\ \A s \in Sessions :
        UnreadOf(s, AllJoinLines) ~> (rpc[s] # "recv" \/ ~UnreadOf(s, AllJoinLines))

\* A session's join line has been forwarded to its own client and to the
\* client of a session that was subscribed to the room before.
C10_Witness ==
    \E a, b \in Sessions :
        /\ a # b /\ tx[a] = tx[b] /\ username[a] # username[b]
        /\ (username[a] \o " joined the chat!") \in Range(ws_out[a])
        /\ (username[a] \o " joined the chat!") \in Range(ws_out[b])
        /\ (username[b] \o " joined the chat!") \in Range(ws_out[b])

AllLeftLines == {u \o " left the chat!" : u \in Usernames}

ClosingInOrder(s) ==
    /\ pc[s] \in {"c_lock", "c_remove"} =>
        /\ left(username[s]) \in Range(said[s])
        /\ IsMember(rooms, username[s], channel[s])
    /\ pc[s] \in {"c_len", "c_rm"} =>
        /\ left(username[s]) \in Range(said[s])
        /\ channel[s] \in DOMAIN rooms
        /\ username[s] \notin rooms[channel[s]].users
    /\ pc[s] = "c_rm" => rooms[channel[s]].users = {}

\* The step that broadcasts a leave line stores it for every live receiver of
\* the room's channel; a room leaves the registry only with an empty set.
ClosingStep ==
    /\ \A s \in Sessions :
        (pc[s] = "leave" /\ pc'[s] = "c_lock") =>
            \A o \in Receivers(tx[s]) :
                chans'[tx[o]] = Append(chans[tx[o]], username[s] \o " left the chat!")
    /\ \A r \in DOMAIN rooms :
        r \notin DOMAIN rooms' => rooms[r].users = {}

C12_LagKeepsSessionAsClaimed ==
    \A s \in Sessions :
        /\ rpc[s] # "lagged"
        /\ (pc[s] \in {"leave", "c_lock", "c_remove", "c_len", "c_rm", "returned"})
            => (SendTaskEnded(s) \/ rpc[s] = "werr")

\* a is b with some elements left out, the others in the order of b.
RECURSIVE IsSubsequence(_, _)
IsSubsequence(a, b) ==
    IF a = <<>> THEN TRUE
    ELSE IF b = <<>> THEN FALSE
    ELSE IF Head(a) = Head(b) THEN IsSubsequence(Tail(a), Tail(b))
    ELSE IsSubsequence(a, Tail(b))

\* a is the beginning of b.
IsPrefix(a, b) == Len(a) <= Len(b) /\ SubSeq(b, 1, Len(a)) = a

\* C13. Per-subscriber order: what a subscriber has forwarded to its client
\* is a subsequence of the lines broadcast in its room, in their order; the
\* room's sequence and the client's sequence only ever grow at the end, so
\* no line is reordered afterwards either.
C13_SubscriberOrder ==
    /\ [](\A s \in Sessions :
            rx_start[s] > 0 => IsSubsequence(ws_out[s], chans[tx[s]]))
    /\ [][/\ \A c \in Sessions : IsPrefix(chans[c], chans'[c])
          /\ \A s \in Sessions : IsPrefix(ws_out[s], ws_out'[s])]_vars

\* A subscriber that joined a room after lines were broadcast in it has
\* forwarded three lines of the room to its client.
C13_Witness ==
    \E s \in Sessions :
        /\ rx_start[s] > 1 /\ Len(ws_out[s]) >= 3
        /\ ws_out[s][1] # ws_out[s][2] /\ ws_out[s][2] # ws_out[s][3]

\* The i-th line the session forwarded is the line at the i-th position of
\* its room's channel counted from where its receiver started: one position
\* per forwarded line, none of them below the start.
ForwardedByPosition(s) ==
    /\ rx_start[s] <= rx_next[s]
    /\ rx_next[s] <= Len(chans[tx[s]]) + 1
    /\ Len(ws_out[s]) = rx_next[s] - rx_start[s]
    /\ \A i \in DOMAIN ws_out[s] : ws_out[s][i] = chans[tx[s]][rx_start[s] + i - 1]

\* The receiver starts behind every line the channel holds when the session
\* subscribes, keeps that start, and moves on by one position per line it
\* forwards.
CursorStep(s) ==
    /\ (rx_start[s] = 0 /\ rx_start'[s] # 0) =>
        /\ rx_start'[s] = Len(chans[tx[s]]) + 1
        /\ rx_next'[s] = rx_start'[s]
    /\ rx_start[s] # 0 =>
        /\ rx_start'[s] = rx_start[s]
        /\ \/ rx_next'[s] = rx_next[s] /\ ws_out'[s] = ws_out[s]
           \/ /\ rx_next'[s] = rx_next[s] + 1
              /\ ws_out'[s] = Append(ws_out[s], chans[tx[s]][rx_next[s]])

\* C14. No replay, at most once: a session is forwarded only lines stored in
\* its room's channel after it subscribed, and every position of the channel
\* is forwarded to it at most once.
C14_NoReplayAtMostOnce ==
    /\ [](\A s \in Sessions : rx_start[s] > 0 => ForwardedByPosition(s))
    /\ [][\A s \in Sessions : CursorStep(s)]_vars

\* A session that subscribed to a room in which lines had been broadcast has
\* ended, having forwarded lines but not the one broadcast before it came.
C14_Witness ==
    \E s \in Sessions :
        /\ pc[s] = "returned" /\ rx_start[s] > 1 /\ ws_out[s] # <<>>
        /\ chans[tx[s]][1] \notin Range(ws_out[s])

\* The session was accepted: it left the join with a channel and a name.
Accepted(s) ==
    /\ accepted(s)
    /\ pc[s] \notin {"hs_recv", "hs_fail", "j_lock", "j_entry", "j_contains",
                     "j_insert", "j_unlock", "rejected"}

\* What a step does to an accepted session and with an inbound text frame:
\* the session keeps its name, room and channel; taking a frame (line 148)
\* touches neither the registry nor any channel; and the broadcast (line 149)
\* gives "{username}: " followed by the frame's text to the session's own
\* channel and touches nothing else.
IdentityStep(s) ==
    /\ Accepted(s) =>
        /\ username'[s] = username[s]
        /\ channel'[s] = channel[s]
        /\ tx'[s] = tx[s]
    /\ (spc[s] = "next" /\ spc'[s] # "next") =>
        /\ rooms' = rooms /\ chans' = chans /\ said' = said
        /\ connect' = connect
    /\ (spc[s] = "bcast" /\ spc'[s] # "bcast") =>
        /\ rooms' = rooms
        /\ connect' = connect
        /\ said'[s] = Append(said[s], username[s] \o ": " \o text[s])
        /\ \A c \in Sessions :
            chans'[c] = IF c = tx[s] /\ Receivers(c) # {}
                        THEN Append(chans[c], username[s] \o ": " \o text[s])
                        ELSE chans[c]

\* C15. Identity is fixed after the handshake: an accepted session keeps its
\* (username, room) for good, and every later inbound text frame, a valid join
\* request included, is only rebroadcast verbatim behind "{username}: " in the
\* session's room, changing neither the registry nor a membership set.
C15_IdentityFixed == [][\A s \in Sessions : IdentityStep(s)]_vars

\* A member of "lobby" sent a join request for ("bob", "den") as a chat text:
\* it was broadcast and forwarded as a chat line under the member's name, the
\* member is still who and where it was, and no room "den" exists.
C15_Witness ==
    \E s \in Sessions :
        /\ Holding(s) /\ channel[s] = "lobby" /\ username[s] = "alice"
        /\ IsMember(rooms, "alice", "lobby")
        /\ ("alice: " \o JoinAgain) \in Range(said[s])
        /\ ("alice: " \o JoinAgain) \in Range(ws_out[s])
        /\ "den" \notin DOMAIN rooms

\* C16. Cleanup never meets a missing room: a session about to remove its
\* name (lines 162-168) holds the registry lock and finds its room in the
\* registry with its name in the room's set; a session at the emptiness test
\* or the room removal (lines 170-171) finds its room in the registry; so no
\* unwrap of the cleanup fails, the registry lock is never poisoned, and the
\* only panic of a session is the one outside the lock, without a channel.
C16_CleanupFindsRoom ==
    /\ \A s \in Sessions :
        /\ pc[s] = "c_remove" =>
            /\ rooms_lock = s
            /\ channel[s] \in DOMAIN rooms
            /\ username[s] \in rooms[channel[s]].users
        /\ pc[s] \in {"c_len", "c_rm"} =>
            /\ rooms_lock = s
            /\ channel[s] \in DOMAIN rooms
        /\ pc[s] = "panicked" => (tx[s] = None /\ rooms_lock # s)
    /\ ~poisoned
    /\ lister # "panicked"

\* A session runs its cleanup in a room another session has been cleaned out
\* of before, while a get_rooms call has come and gone.
C16_Witness ==
    \E s, o \in Sessions :
        /\ s # o /\ pc[s] = "c_remove" /\ pc[o] = "returned"
        /\ tx[o] = tx[s] /\ channel[o] = channel[s]
        /\ nlist > 0

\* C17. An unaccepted session ends in the handshake loop, as claimed: only a
\* session that was accepted stands at the step that unwraps the sender
\* handle (line 130), and no session ends by the panic of that unwrap.
C17_UnacceptedEndsInLoopAsClaimed ==
    \A s \in Sessions :
        /\ pc[s] = "unwrap" => accepted(s)
        /\ pc[s] # "panicked"

\* C18. No line from a departed session, as claimed: among the lines stored
\* in a room's channel for its subscribers, no "{username}: ..." chat line of
\* a session comes after that session's "{username} left the chat!" line.
C18_NoLineAfterLeftAsClaimed ==
    \A s \in Sessions :
        Accepted(s) =>
            \A i, j \in DOMAIN chans[tx[s]] :
                (i < j /\ chans[tx[s]][i] = left(username[s]))
                    => chans[tx[s]][j] \notin ChatLines(s)

\* C19. One channel per live room: every session that is a member of the room
\* named R holds the sender of the channel instance the registry stores under
\* R (its receiver is subscribed from that sender); so two sessions that are
\* members of one room name at once broadcast into one channel instance; two
\* rooms never share an instance; and an instance is never stored under two
\* names, also when a room was torn down and created again.
C19_OneChannelPerRoom ==
    /\ \A s \in Sessions :
        Holding(s) =>
            /\ channel[s] \in DOMAIN rooms
            /\ tx[s] = rooms[channel[s]].tx
            /\ rx_start[s] > 0 => rx_next[s] <= Len(chans[rooms[channel[s]].tx]) + 1
    /\ \A a, b \in Sessions :
        (Holding(a) /\ Holding(b) /\ channel[a] = channel[b]) =>
            /\ tx[a] = tx[b]
            /\ rooms[channel[a]].tx = tx[b]
    /\ \A r1, r2 \in DOMAIN rooms : rooms[r1].tx = rooms[r2].tx => r1 = r2

\* A room was torn down and created again: a session that has left holds the
\* old channel instance of the name, and the member of the new room holds the
\* new one, which is the registry's.
C19_Witness ==
    \E a, b \in Sessions :
        /\ pc[a] = "returned" /\ Holding(b) /\ pc[b] = "select"
        /\ channel[a] = channel[b] /\ tx[a] # tx[b]
        /\ rooms[channel[b]].tx = tx[b]
        /\ said[b] # <<>>

\* The holder of the registry lock can take its next step.
HolderCanStep ==
    \/ \E h \in Sessions : rooms_lock = h /\ ENABLED Main(h)
    \/ rooms_lock = Lister /\ ENABLED get_rooms_return

\* C20. Lock discipline and deadlock freedom: a membership lock is taken only
\* by a statement that runs under the registry lock (order: registry, then
\* room) and is not held between statements; whoever holds the registry lock
\* is inside the scope of its guard and not at an await, and the two tasks
\* of a session hold no lock at all; a get_rooms call holds the lock only
\* from its lock to its return; so whenever a session waits for the lock its
\* holder can step, and a session at a free lock can take it: joining,
\* leaving and listing never all wait.
C20_LockDiscipline ==
    /\ \A s \in Sessions :
        /\ TakesUsersLock(s) => rooms_lock = s
        /\ InRegistryScope(s) <=> rooms_lock = s
        /\ AtAwait(s) => rooms_lock # s
        /\ WaitsForLock(s) => HolderCanStep
        /\ (pc[s] \in {"j_lock", "c_lock"} /\ rooms_lock = None) => ENABLED Main(s)
    /\ rooms_lock = Lister <=> lister = "locked"
    /\ rooms_lock \in Sessions \cup {Lister, None}
    /\ (lister = "idle" /\ nlist < MaxList /\ rooms_lock # None) => HolderCanStep

\* One session waits to join and the other waits to clean up while a
\* get_rooms call holds the registry lock.
C20_Witness ==
    \E a, b \in Sessions :
        /\ pc[a] = "j_lock" /\ pc[b] = "c_lock"
        /\ rooms_lock = Lister /\ lister = "locked"

====
